---- MODULE Spec2Model ----
(***************************************************************************)
(* The EventContent derive of ruma-events-macros (event_content.rs):      *)
(* expand_event_content compiles the attributes and the body of one       *)
(* content type into the generated impls, and the generated impls         *)
(* (from_parts, empty, redact, event_type) are then called at run time.   *)
(***************************************************************************)
EXTENDS Integers, Sequences, FiniteSets, TLC

\* ------------------------------------------------------------------------
\* Bounds of the explored inputs
\* ------------------------------------------------------------------------
MaxMeta == 3         \* tokens in all ruma_event attributes of the type together
MaxFields == 2       \* fields of the body
MaxFieldAttrs == 2   \* attributes on all fields of the body together

\* ------------------------------------------------------------------------
\* Generic helpers
\* ------------------------------------------------------------------------
Min(S) == CHOOSE x \in S : \A y \in S : x <= y

Range(s) == {s[i] : i \in 1..Len(s)}

\* Iterator::find_map: the first position of the sequence of booleans hit
\* that holds TRUE, 0 when there is none.
FirstIndex(hit) ==
    LET I == {i \in 1..Len(hit) : hit[i]}
    IN IF I = {} THEN 0 ELSE Min(I)

RECURSIVE Flatten(_)
Flatten(ss) == IF ss = <<>> THEN <<>> ELSE Head(ss) \o Flatten(Tail(ss))

\* ------------------------------------------------------------------------
\* The input of the derive: attribute tokens, attributes, fields
\* ------------------------------------------------------------------------
Tok(kw, lit) == [kw |-> kw, lit |-> lit]

TypeStrings == {"m.a", "m.b"}

\* identifiers written after `kind =`; "Custom" is an identifier that names
\* no event kind
DerivableKindTokens ==
    {"GlobalAccountData", "RoomAccountData", "EphemeralRoom", "Message", "State", "ToDevice"}
NonDerivableKindTokens == {"Redaction", "Presence", "Decrypted"}
KindTokens == DerivableKindTokens \cup NonDerivableKindTokens \cup {"Custom"}

Attr(path, args) == [path |-> path, args |-> args]

\* ------------------------------------------------------------------------
\* Parsing of the attributes
\* ------------------------------------------------------------------------
\* syn::Result: Ok(value) or Err(message); a panic of the macro is the third
\* outcome of a call
Ok(v) == [st |-> "Ok", v |-> v]
Err(msg) == [st |-> "Err", v |-> msg]
Panic(msg) == [st |-> "Panic", v |-> msg]
IsOk(r) == r.st = "Ok"

\* Option: None is the empty sequence, Some(x) is <<x>>
None == <<>>
Some(x) == <<x>>

Meta(tag, val) == [tag |-> tag, val |-> val]

\* impl Parse for EventKind
EventKindParse(ident) ==
    CASE ident = "GlobalAccountData" -> Ok("GlobalAccountData")
      [] ident = "RoomAccountData" -> Ok("RoomAccountData")
      [] ident = "EphemeralRoom" -> Ok("Ephemeral")
      [] ident = "Message" -> Ok("Message")
      [] ident = "State" -> Ok("State")
      [] ident = "ToDevice" -> Ok("ToDevice")
      [] OTHER -> Err("valid event kinds are GlobalAccountData, RoomAccountData, EphemeralRoom, Message, State, ToDevice")

EventMetaParse_kind_unchecked(t) ==
    IF t.kw = "type" THEN Ok(Meta("Type", t.lit))
    ELSE IF t.kw = "kind" THEN
        LET k == EventKindParse(t.lit)
        IN IF t.lit \in NonDerivableKindTokens THEN Ok(Meta("Kind", t.lit))
           ELSE IF IsOk(k) THEN Ok(Meta("Kind", k.v)) ELSE k
    ELSE IF t.kw = "skip_redaction" THEN Ok(Meta("SkipRedacted", ""))
    ELSE IF t.kw = "custom_redacted" THEN Ok(Meta("CustomRedacted", ""))
    ELSE Err("expected one of: type, kind, skip_redaction, custom_redacted")

\* impl Parse for EventMeta
EventMetaParse(t) ==
    IF t.kw = "type" THEN Ok(Meta("Type", t.lit))
    ELSE IF t.kw = "kind" THEN
        LET k == EventKindParse(t.lit)
        IN IF IsOk(k) THEN Ok(Meta("Kind", k.v)) ELSE k
    ELSE IF t.kw = "skip_redaction" THEN Ok(Meta("SkipRedacted", ""))
    ELSE IF t.kw = "custom_redacted" THEN Ok(Meta("CustomRedacted", ""))
    ELSE Err("expected one of: type, kind, skip_redaction, custom_redacted")

\* impl Parse for MetaAttrs: a comma-separated list of EventMeta
MetaAttrsParse(args) ==
    LET bad == FirstIndex([i \in 1..Len(args) |-> ~IsOk(EventMetaParse(args[i]))])
    IN IF bad # 0 THEN EventMetaParse(args[bad])
       ELSE Ok([i \in 1..Len(args) |-> EventMetaParse(args[i]).v])

\* Attribute::parse_args::<EventMeta>(): the arguments are one EventMeta
ParseArgsEventMeta(args) ==
    IF Len(args) = 1 THEN EventMetaParse(args[1]) ELSE Err("unexpected token")

\* MetaAttrs::is_custom
is_custom(metas) == \E i \in 1..Len(metas) : metas[i].tag = "CustomRedacted"

\* MetaAttrs::get_event_type: the first Type of the list
get_event_type(metas) ==
    LET i == FirstIndex([j \in 1..Len(metas) |-> metas[j].tag = "Type"])
    IN IF i = 0 THEN None ELSE Some(metas[i].val)

\* MetaAttrs::get_event_kind: the first Kind of the list
get_event_kind(metas) ==
    LET i == FirstIndex([j \in 1..Len(metas) |-> metas[j].tag = "Kind"])
    IN IF i = 0 THEN None ELSE Some(metas[i].val)

\* ------------------------------------------------------------------------
\* Code generation
\* ------------------------------------------------------------------------
\* format_ident!("Redacted{}", ident)
RedactedIdent(ident) == "Redacted" \o ident

\* generate_event_content_impl: impl EventContent for ident
generate_event_content_impl(ident, event_type) ==
    [item |-> "EventContent", ident |-> ident, event_type |-> event_type]

generate_static_event_content_impl_not_redacted(ident, event_kind, redacted, event_type) ==
    IF event_kind \in {"Redaction", "Presence", "Decrypted"}
    THEN Panic("not a valid event content kind")
    ELSE Ok([item |-> "StaticEventContent", ident |-> ident,
             KIND |-> IF event_kind \in {"Message", "State"}
                      THEN [variant |-> event_kind, redacted |-> FALSE]
                      ELSE IF event_kind = "Ephemeral"
                      THEN [variant |-> "EphemeralRoomData"]
                      ELSE [variant |-> event_kind],
             TYPE |-> event_type])

\* generate_static_event_content_impl: impl StaticEventContent for ident
generate_static_event_content_impl(ident, event_kind, redacted, event_type) ==
    LET item(kind) == Ok([item |-> "StaticEventContent", ident |-> ident,
                          KIND |-> kind, TYPE |-> event_type])
    IN CASE event_kind = "GlobalAccountData" -> item([variant |-> "GlobalAccountData"])
         [] event_kind = "RoomAccountData" -> item([variant |-> "RoomAccountData"])
         [] event_kind = "Ephemeral" -> item([variant |-> "EphemeralRoomData"])
         [] event_kind = "Message" -> item([variant |-> "Message", redacted |-> redacted])
         [] event_kind = "State" -> item([variant |-> "State", redacted |-> redacted])
         [] event_kind = "ToDevice" -> item([variant |-> "ToDevice"])
         [] event_kind \in {"Redaction", "Presence", "Decrypted"} ->
                Panic("not a valid event content kind")

\* generate_marker_trait_impl: impl <Kind>EventContent for ident
generate_marker_trait_impl(event_kind, ident) ==
    LET item(marker_trait) == Ok([item |-> "Marker", ident |-> ident, trait |-> marker_trait])
    IN CASE event_kind = "GlobalAccountData" -> item("GlobalAccountDataEventContent")
         [] event_kind = "RoomAccountData" -> item("RoomAccountDataEventContent")
         [] event_kind = "Ephemeral" -> item("EphemeralRoomEventContent")
         [] event_kind = "Message" -> item("MessageEventContent")
         [] event_kind = "State" -> item("StateEventContent")
         [] event_kind = "ToDevice" -> item("ToDeviceEventContent")
         [] event_kind \in {"Redaction", "Presence", "Decrypted"} ->
                Err("valid event kinds are GlobalAccountData, RoomAccountData, EphemeralRoom, Message, State, ToDevice")

needs_redacted_custom_ignored(content_attr, event_kind) ==
    event_kind \in {Some("Message"), Some("State")}

\* needs_redacted
needs_redacted(content_attr, event_kind) ==
    /\ ~\E i \in 1..Len(content_attr) : is_custom(content_attr[i])
    /\ event_kind \in {Some("Message"), Some("State")}

\* generate_redacted_event_content, the validation of the field attributes:
\* the first ruma_event attribute of a named field that is no EventMeta
ValidateFieldAttrs(data) ==
    IF data.shape = "named" THEN
        LET attrs == Flatten([i \in 1..Len(data.fields) |-> data.fields[i].attrs])
            mine == SelectSeq(attrs, LAMBDA a : a.path = "ruma_event")
            bad == FirstIndex([i \in 1..Len(mine) |-> ~IsOk(ParseArgsEventMeta(mine[i].args))])
        IN IF bad # 0 THEN ParseArgsEventMeta(mine[bad].args) ELSE Ok(<<>>)
    ELSE Ok(<<>>)

\* the filter of the kept fields: the first attribute of the field that
\* parses as an EventMeta is SkipRedacted
IsKeptField(f) ==
    LET i == FirstIndex([j \in 1..Len(f.attrs) |-> IsOk(ParseArgsEventMeta(f.attrs[j].args))])
    IN i # 0 /\ ParseArgsEventMeta(f.attrs[i].args).v = Meta("SkipRedacted", "")

\* f.attrs.retain(|a| !a.path.is_ident("ruma_event"))
StripRumaEvent(f) ==
    [f EXCEPT !.attrs = SelectSeq(f.attrs, LAMBDA a : a.path # "ruma_event")]

KeptRedactedFields_any_shape(data) ==
    LET fields == SelectSeq(data.fields, IsKeptField)
    IN [i \in 1..Len(fields) |-> StripRumaEvent(fields[i])]

\* generate_redacted_event_content, kept_redacted_fields
KeptRedactedFields(data) ==
    IF data.shape = "named" THEN
        LET fields == SelectSeq(data.fields, IsKeptField)
        IN [i \in 1..Len(fields) |-> StripRumaEvent(fields[i])]
    ELSE <<>>

\* generate_redacted_event_content
generate_redacted_event_content(input, event_type, event_kind) ==
    LET ident == input.ident
        redacted_ident == RedactedIdent(ident)
        valid == ValidateFieldAttrs(input.data)
        kept_redacted_fields == KeptRedactedFields(input.data)
        redaction_struct_fields ==
            [i \in 1..Len(kept_redacted_fields) |-> kept_redacted_fields[i].name]
        empty == kept_redacted_fields = <<>>
        redact_content ==
            [item |-> "RedactContent", ident |-> ident, Redacted |-> redacted_ident,
             moved |-> redaction_struct_fields]
        struct ==
            [item |-> "Struct", ident |-> redacted_ident,
             shape |-> IF empty THEN "unit" ELSE "named", fields |-> kept_redacted_fields]
        constructor ==
            IF empty THEN <<[item |-> "Constructor", ident |-> redacted_ident]>> ELSE <<>>
        redacted_event_content == generate_event_content_impl(redacted_ident, event_type)
        redacted_impl ==
            [item |-> "RedactedEventContent", ident |-> redacted_ident,
             event_type |-> event_type,
             redacted_return |-> IF empty THEN "Ok" ELSE "Err",
             has_serialize_fields |-> ~empty,
             has_deserialize_fields |-> IF empty THEN "False" ELSE "True"]
        marker_trait_impl ==
            IF event_kind = Some("Message")
            THEN <<[item |-> "Marker", ident |-> redacted_ident,
                    trait |-> "RedactedMessageEventContent"]>>
            ELSE IF event_kind = Some("State")
            THEN <<[item |-> "Marker", ident |-> redacted_ident,
                    trait |-> "RedactedStateEventContent"]>>
            ELSE <<>>
        static_event_content_impl ==
            IF event_kind = None THEN Ok(<<>>)
            ELSE LET s == generate_static_event_content_impl(
                              redacted_ident, event_kind[1], TRUE, event_type)
                 IN IF IsOk(s) THEN Ok(<<s.v>>) ELSE s
    IN IF ~IsOk(valid) THEN valid
       ELSE IF ~IsOk(static_event_content_impl) THEN static_event_content_impl
       ELSE Ok(<<redact_content, struct>> \o constructor
               \o <<redacted_event_content, redacted_impl>>
               \o static_event_content_impl.v \o marker_trait_impl)

ContentAttr_errors_skipped(input) ==
    LET mine == SelectSeq(input.attrs, LAMBDA a : a.path = "ruma_event")
        good == SelectSeq(mine, LAMBDA a : IsOk(MetaAttrsParse(a.args)))
    IN Ok([i \in 1..Len(good) |-> MetaAttrsParse(good[i].args).v])

\* expand_event_content, content_attr: the ruma_event attributes of the type,
\* each parsed as MetaAttrs; the first parse error is returned
ContentAttr(input) ==
    LET mine == SelectSeq(input.attrs, LAMBDA a : a.path = "ruma_event")
        bad == FirstIndex([i \in 1..Len(mine) |-> ~IsOk(MetaAttrsParse(mine[i].args))])
    IN IF bad # 0 THEN MetaAttrsParse(mine[bad].args)
       ELSE Ok([i \in 1..Len(mine) |-> MetaAttrsParse(mine[i].args).v])

\* content_attr.iter().filter_map(|attrs| attrs.get_event_type())
EventTypes(content_attr) ==
    Flatten([i \in 1..Len(content_attr) |-> get_event_type(content_attr[i])])

\* content_attr.iter().filter_map(|attrs| attrs.get_event_kind())
EventKinds(content_attr) ==
    Flatten([i \in 1..Len(content_attr) |-> get_event_kind(content_attr[i])])

ExpandParsed_static_without_kind(input, content_attr) ==
    LET event_types == EventTypes(content_attr)
        event_kinds == EventKinds(content_attr)
        event_type == event_types[1]
        event_kind == IF event_kinds = <<>> THEN Some("ToDevice") ELSE Some(event_kinds[1])
        redacted_event_content ==
            IF needs_redacted(content_attr, event_kind)
            THEN generate_redacted_event_content(input, event_type, event_kind)
            ELSE Ok(<<>>)
        event_content_impl == generate_event_content_impl(input.ident, event_type)
        static_event_content_impl ==
            generate_static_event_content_impl(input.ident, event_kind[1], FALSE, event_type)
        marker_trait_impl == generate_marker_trait_impl(event_kind[1], input.ident)
    IN IF Len(event_types) = 0 THEN Err("no event type attribute found")
       ELSE IF Len(event_types) > 1 THEN Err("multiple event type attribute found")
       ELSE IF Len(event_kinds) > 1 THEN Err("multiple event kind attribute found")
       ELSE IF ~IsOk(redacted_event_content) THEN redacted_event_content
       ELSE IF ~IsOk(static_event_content_impl) THEN static_event_content_impl
       ELSE IF ~IsOk(marker_trait_impl) THEN marker_trait_impl
       ELSE Ok(redacted_event_content.v \o <<event_content_impl>>
               \o <<static_event_content_impl.v>> \o <<marker_trait_impl.v>>)

\* expand_event_content, from the parsed attributes on
ExpandParsed(input, content_attr) ==
    LET event_types == EventTypes(content_attr)
        event_kinds == EventKinds(content_attr)
        event_type == event_types[1]
        event_kind == IF event_kinds = <<>> THEN None ELSE Some(event_kinds[1])
        redacted_event_content ==
            IF needs_redacted(content_attr, event_kind)
            THEN generate_redacted_event_content(input, event_type, event_kind)
            ELSE Ok(<<>>)
        event_content_impl == generate_event_content_impl(input.ident, event_type)
        static_event_content_impl ==
            IF event_kind = None THEN Ok(<<>>)
            ELSE LET s == generate_static_event_content_impl(
                              input.ident, event_kind[1], FALSE, event_type)
                 IN IF IsOk(s) THEN Ok(<<s.v>>) ELSE s
        marker_trait_impl ==
            IF event_kind = None THEN Ok(<<>>)
            ELSE LET m == generate_marker_trait_impl(event_kind[1], input.ident)
                 IN IF IsOk(m) THEN Ok(<<m.v>>) ELSE m
    IN IF Len(event_types) = 0 THEN Err("no event type attribute found")
       ELSE IF Len(event_types) > 1 THEN Err("multiple event type attribute found")
       ELSE IF Len(event_kinds) > 1 THEN Err("multiple event kind attribute found")
       ELSE IF ~IsOk(redacted_event_content) THEN redacted_event_content
       ELSE IF ~IsOk(static_event_content_impl) THEN static_event_content_impl
       ELSE IF ~IsOk(marker_trait_impl) THEN marker_trait_impl
       ELSE Ok(redacted_event_content.v \o <<event_content_impl>>
               \o static_event_content_impl.v \o marker_trait_impl.v)

\* expand_event_content
expand_event_content(input) ==
    LET content_attr == ContentAttr(input)
    IN IF ~IsOk(content_attr) THEN content_attr
       ELSE ExpandParsed(input, content_attr.v)

\* expand_event_content, the generator functions it calls, in the order of
\* the calls, up to the one that returns Err or panics
ExpandParsedCalls(input, content_attr) ==
    LET event_types == EventTypes(content_attr)
        event_kinds == EventKinds(content_attr)
        event_type == event_types[1]
        event_kind == IF event_kinds = <<>> THEN None ELSE Some(event_kinds[1])
        redacted == needs_redacted(content_attr, event_kind)
        with_kind(f) == IF event_kind = None THEN <<>> ELSE <<f>>
    IN IF Len(event_types) # 1 \/ Len(event_kinds) > 1 THEN <<>>
       ELSE IF redacted /\ ~IsOk(generate_redacted_event_content(input, event_type, event_kind))
       THEN <<"generate_redacted_event_content">>
       ELSE (IF redacted THEN <<"generate_redacted_event_content">> ELSE <<>>)
            \o <<"generate_event_content_impl">>
            \o with_kind("generate_static_event_content_impl")
            \o (IF event_kind # None
                   /\ ~IsOk(generate_static_event_content_impl(
                                input.ident, event_kind[1], FALSE, event_type))
                THEN <<>>
                ELSE with_kind("generate_marker_trait_impl"))

ExpandCalls(input) ==
    LET content_attr == ContentAttr(input)
    IN IF ~IsOk(content_attr) THEN <<>>
       ELSE ExpandParsedCalls(input, content_attr.v)

\* ------------------------------------------------------------------------
\* The generated code at run time
\* ------------------------------------------------------------------------
Vals == {0, 1}
RoomVersions == {"1", "6"}

StructValue(ident, fields) == [ty |-> ident, fields |-> fields]

JsonNull == [json |-> "null", members |-> <<>>]
JsonObject(members) == [json |-> "object", members |-> members]
JsonArray(elems) == [json |-> "array", members |-> elems]

FieldNames(def) == {def.fields[i].name : i \in 1..Len(def.fields)}

\* serde_json::from_str into the derived Deserialize of a struct: a struct
\* with named fields reads an object that has every field, a unit struct
\* reads null, a tuple struct reads an array of its length
from_str(ident, def, content) ==
    CASE def.shape = "named" ->
            IF content.json = "object" /\ FieldNames(def) \subseteq DOMAIN content.members
            THEN Ok(StructValue(ident, [n \in FieldNames(def) |-> content.members[n]]))
            ELSE Err([error |-> "deserialize"])
      [] def.shape = "unit" ->
            IF content.json = "null"
            THEN Ok(StructValue(ident, <<>>))
            ELSE Err([error |-> "deserialize"])
      [] def.shape = "tuple" ->
            IF content.json = "array" /\ Len(content.members) = Len(def.fields)
            THEN Ok(StructValue(ident, content.members))
            ELSE Err([error |-> "deserialize"])

TypeMismatch(expected, found) ==
    [error |-> "expected event type, found", expected |-> expected, found |-> found]

from_parts_parse_first(impl, def, ev_type, content) ==
    IF ~IsOk(from_str(impl.ident, def, content))
    THEN [result |-> from_str(impl.ident, def, content), parsed |-> TRUE]
    ELSE IF ev_type # impl.event_type
    THEN [result |-> Err(TypeMismatch(impl.event_type, ev_type)), parsed |-> TRUE]
    ELSE [result |-> from_str(impl.ident, def, content), parsed |-> TRUE]

\* the generated EventContent::from_parts; parsed tells whether
\* serde_json::from_str was called
from_parts(impl, def, ev_type, content) ==
    IF ev_type # impl.event_type
    THEN [result |-> Err(TypeMismatch(impl.event_type, ev_type)), parsed |-> FALSE]
    ELSE [result |-> from_str(impl.ident, def, content), parsed |-> TRUE]

\* the generated EventContent::event_type
event_type_of(impl) == impl.event_type

empty_always_constructs(impl, ev_type) ==
    IF ev_type # impl.event_type
    THEN Err(TypeMismatch(impl.event_type, ev_type))
    ELSE Ok(StructValue(impl.ident, <<>>))

\* the generated RedactedEventContent::empty
empty(impl, ev_type) ==
    IF ev_type # impl.event_type
    THEN Err(TypeMismatch(impl.event_type, ev_type))
    ELSE IF impl.redacted_return = "Ok"
    THEN Ok(StructValue(impl.ident, <<>>))
    ELSE Err([error |-> "this redacted event has fields that cannot be constructed"])

\* the generated RedactContent::redact
redact(impl, self, version) ==
    StructValue(impl.Redacted, [n \in Range(impl.moved) |-> self.fields[n]])

has_serialize_fields_payload_dependent(impl, self) ==
    \E n \in DOMAIN self.fields : self.fields[n] = 1

\* the generated RedactedEventContent::has_serialize_fields: the literal
\* written by the derive, whatever self holds
has_serialize_fields(impl, self) == impl.has_serialize_fields

\* the generated RedactedEventContent::has_deserialize_fields
has_deserialize_fields(impl) == impl.has_deserialize_fields

\* the generated constructor of a redacted type without fields: Self
new(constructor) == StructValue(constructor.ident, <<>>)

\* ------------------------------------------------------------------------
\* The explored inputs
\* ------------------------------------------------------------------------
\* the sequence s cut into its runs of equal owner: slot i of the k slots
\* holds, in order, the elements s[j] with owner[j] = i
Slot(s, owner, i) ==
    LET J == {j \in 1..Len(s) : owner[j] = i}
        pos(r) == CHOOSE j \in J : Cardinality({x \in J : x < j}) = r - 1
    IN [r \in 1..Cardinality(J) |-> s[pos(r)]]

Monotone(owner) == \A i, j \in DOMAIN owner : i <= j => owner[i] <= owner[j]

\* an attribute of another macro or of the compiler (doc, serde, ...)
DocAttr == Attr("doc", <<Tok("hidden", "")>>)
SerdeAttr == Attr("serde", <<Tok("rename", "")>>)

\* the tokens written in the ruma_event attributes of a type whose kind
\* identifier is k; `rename` is no token of the EventMeta grammar
TypeMetaTokens(k) ==
    {Tok("type", "m.a"), Tok("type", "m.b"), Tok("kind", k),
     Tok("custom_redacted", ""), Tok("skip_redaction", ""), Tok("rename", "")}

\* the attributes of a type: its doc attribute, then the n tokens toks in
\* ruma_event attributes, owner[j] being the attribute that holds token j
\* (every attribute holds a token)
TypeAttrs(toks, owner) ==
    LET k == IF toks = <<>> THEN 0 ELSE owner[Len(toks)]
    IN <<DocAttr>> \o [i \in 1..k |-> Attr("ruma_event", Slot(toks, owner, i))]

Owners(n) ==
    {o \in [1..n -> 1..n] :
        /\ Monotone(o)
        /\ n > 0 => o[1] = 1
        /\ \A j \in 1..(n - 1) : o[j + 1] <= o[j] + 1}

\* one ruma_event attribute: a type, then a kind or none, then
\* custom_redacted or not
PlainTypeAttrs ==
    {<<DocAttr, Attr("ruma_event", <<Tok("type", "m.a")>> \o k \o c)>> :
        k \in {<<>>} \cup {<<Tok("kind", x)>> : x \in KindTokens},
        c \in {<<>>, <<Tok("custom_redacted", "")>>}}

\* the attributes written on a field
FieldAttrChoices ==
    {Attr("ruma_event", <<Tok("skip_redaction", "")>>),
     Attr("ruma_event", <<Tok("custom_redacted", "")>>),
     Attr("ruma_event", <<Tok("rename", "")>>),
     SerdeAttr}

FieldType(i) == IF i % 2 = 1 THEN "String" ELSE "Relation"

Field(i, attrs) == [name |-> i, ty |-> FieldType(i), attrs |-> attrs]

\* nf fields, field i carrying the attributes as[j] with owner[j] = i
Fields(nf, as, owner) == [i \in 1..nf |-> Field(i, Slot(as, owner, i))]

Body(shape, fields) == [shape |-> shape, fields |-> fields]

\* the body of DoneEventContent (key/verification/done.rs), and a body with
\* a kept and a dropped field
PlainBodies ==
    {Body("named", <<Field(1, <<SerdeAttr>>)>>),
     Body("named", <<Field(1, <<Attr("ruma_event", <<Tok("skip_redaction", "")>>)>>),
                     Field(2, <<>>)>>)}

DeriveInput(attrs, data) == [ident |-> "Content", attrs |-> attrs, data |-> data]

\* any ruma_event attributes of up to MaxMeta tokens on a plain body
InputAttrs(in) ==
    \E n \in 0..MaxMeta, k \in KindTokens, data \in PlainBodies :
        \E toks \in [1..n -> TypeMetaTokens(k)], owner \in Owners(n) :
            in = DeriveInput(TypeAttrs(toks, owner), data)

\* one well-formed ruma_event attribute on any body: a struct of up to
\* MaxFields named fields, a newtype struct or a unit struct, the fields
\* carrying up to MaxFieldAttrs attributes together
InputBodies(in) ==
    \E a \in PlainTypeAttrs :
        \/ \E nf \in 1..MaxFields, na \in 0..MaxFieldAttrs :
               \E as \in [1..na -> FieldAttrChoices],
                  owner \in {o \in [1..na -> 1..nf] : Monotone(o)},
                  shape \in {"named", "tuple"} :
                   /\ shape = "tuple" => nf = 1
                   /\ in = DeriveInput(a, Body(shape, Fields(nf, as, owner)))
        \/ \E shape \in {"named", "unit"} : in = DeriveInput(a, Body(shape, <<>>))

\* ------------------------------------------------------------------------
\* The state machine: one derive, then calls of the generated code
\* ------------------------------------------------------------------------
VARIABLES
    input,      \* the DeriveInput handed to the derive
    expanded,   \* the outcome of expand_event_content, Pending before it ran
    generated,  \* the generator functions expand_event_content called, in order
    call,       \* the last call of a function, with its outcome
    features,   \* the cargo features ruma-events is built with
    unsigned    \* the unsigned data at hand, NoValue before any was made

vars == <<input, expanded, generated, call, features, unsigned>>

Pending == [st |-> "Pending", v |-> <<>>]
NoCall == [op |-> "none"]
NoValue == [ty |-> "none"]

Init ==
    /\ InputAttrs(input) \/ InputBodies(input)
    /\ expanded = Pending
    /\ generated = <<>>
    /\ call = NoCall
    /\ features = {}
    /\ unsigned = NoValue

\* the derive runs
Expand ==
    /\ expanded.st = "Pending"
    /\ expanded' = expand_event_content(input)
    /\ generated' = ExpandCalls(input)
    /\ UNCHANGED <<input, call, features, unsigned>>

\* the generated items of one sort
Items(sort) ==
    IF expanded.st = "Ok" THEN SelectSeq(expanded.v, LAMBDA it : it.item = sort) ELSE <<>>

\* the struct definition of a compiled type: the body of the input, or the
\* generated redacted struct
DefOf(ident) ==
    IF ident = input.ident THEN input.data
    ELSE LET d == CHOOSE it \in Range(Items("Struct")) : it.ident = ident
         IN [shape |-> d.shape, fields |-> d.fields]

\* the values of the input's content type
SelfValues == {StructValue(input.ident, f) : f \in [FieldNames(input.data) -> Vals]}

\* the payloads handed to from_parts
Payloads ==
    {JsonNull, JsonArray([i \in 1..Len(input.data.fields) |-> 1]),
     JsonObject(<<>>), JsonObject([n \in FieldNames(input.data) |-> 1])}

\* EventContent::from_parts of a compiled type is called
FromParts ==
    \E impl \in Range(Items("EventContent")), ev_type \in TypeStrings, content \in Payloads :
        LET r == from_parts(impl, DefOf(impl.ident), ev_type, content)
        IN /\ call.op = "none"
           /\ call' = [op |-> "from_parts", ident |-> impl.ident, ev_type |-> ev_type,
                       content |-> content, result |-> r.result, parsed |-> r.parsed]
           /\ UNCHANGED <<input, expanded, generated, features, unsigned>>

\* EventContent::event_type of a compiled type is called
EventType ==
    \E impl \in Range(Items("EventContent")) :
        /\ call.op = "none"
        /\ call' = [op |-> "event_type", ident |-> impl.ident, result |-> event_type_of(impl)]
        /\ UNCHANGED <<input, expanded, generated, features, unsigned>>

\* RedactedEventContent::empty of the redacted type is called
Empty ==
    \E impl \in Range(Items("RedactedEventContent")), ev_type \in TypeStrings :
        /\ call.op = "none"
        /\ call' = [op |-> "empty", ident |-> impl.ident, ev_type |-> ev_type,
                    result |-> empty(impl, ev_type)]
        /\ UNCHANGED <<input, expanded, generated, features, unsigned>>

\* RedactContent::redact of the content type is called
Redact ==
    \E impl \in Range(Items("RedactContent")), self \in SelfValues, version \in RoomVersions :
        /\ call.op = "none"
        /\ call' = [op |-> "redact", ident |-> impl.ident, self |-> self,
                    version |-> version, result |-> redact(impl, self, version)]
        /\ UNCHANGED <<input, expanded, generated, features, unsigned>>

\* the values of a generated redacted type
RedactedValues(ident) ==
    {StructValue(ident, f) : f \in [FieldNames(DefOf(ident)) -> Vals]}

\* RedactedEventContent::has_serialize_fields of a redacted value is called
HasSerializeFields ==
    \E impl \in Range(Items("RedactedEventContent")) :
        \E self \in RedactedValues(impl.ident) :
            /\ call.op = "none"
            /\ call' = [op |-> "has_serialize_fields", ident |-> impl.ident, self |-> self,
                        result |-> has_serialize_fields(impl, self)]
            /\ UNCHANGED <<input, expanded, generated, features, unsigned>>

\* RedactedEventContent::has_deserialize_fields of the redacted type is called
HasDeserializeFields ==
    \E impl \in Range(Items("RedactedEventContent")) :
        /\ call.op = "none"
        /\ call' = [op |-> "has_deserialize_fields", ident |-> impl.ident,
                    result |-> has_deserialize_fields(impl)]
        /\ UNCHANGED <<input, expanded, generated, features, unsigned>>

\* the constructor new() of the redacted type is called
New ==
    \E constructor \in Range(Items("Constructor")) :
        /\ call.op = "none"
        /\ call' = [op |-> "new", ident |-> constructor.ident, result |-> new(constructor)]
        /\ UNCHANGED <<input, expanded, generated, features, unsigned>>

\* the caller takes the outcome of the call
Return ==
    /\ call.op # "none"
    /\ call' = NoCall
    /\ UNCHANGED <<input, expanded, generated, features, unsigned>>

Next ==
    \/ Expand
    \/ FromParts
    \/ EventType
    \/ Empty
    \/ Redact
    \/ HasSerializeFields
    \/ HasDeserializeFields
    \/ New
    \/ Return

Spec == Init /\ [][Next]_vars

\* ------------------------------------------------------------------------
\* unsigned.rs: Unsigned and RedactedUnsigned
\* ------------------------------------------------------------------------
UnstablePreSpec == "unstable-pre-spec"
Compat == "compat"
Features == {UnstablePreSpec, Compat}

\* the values of the fields: Int, String, Relations, Box<SyncRedactionEvent>
Ages == {-1, 0, 1}
TransactionIds == {"txn1", "txn2"}
RelationsValues == {"annotation", "replace"}
RedactionEvents == {"$redaction1", "$redaction2"}

Option(S) == {None} \cup {Some(x) : x \in S}

\* struct Unsigned: the relations field exists under unstable-pre-spec only
UnsignedValue(fs, age, transaction_id, relations) ==
    IF UnstablePreSpec \in fs
    THEN [age |-> age, transaction_id |-> transaction_id, relations |-> relations]
    ELSE [age |-> age, transaction_id |-> transaction_id]

\* the values of Unsigned in a build with the features fs
UnsignedValues(fs) ==
    {UnsignedValue(fs, age, transaction_id, relations) :
        age \in Option(Ages), transaction_id \in Option(TransactionIds),
        relations \in Option(RelationsValues)}

\* #[derive(Default)] of Unsigned and Unsigned::new
Unsigned_default(fs) == UnsignedValue(fs, None, None, None)
Unsigned_new(fs) == Unsigned_default(fs)

\* Unsigned::is_empty
Unsigned_is_empty(self) == self.age = None /\ self.transaction_id = None

\* impl From<UnsignedWithPrevContent> for Unsigned
Unsigned_from(fs, u) == UnsignedValue(fs, u.age, u.transaction_id, u.relations)

\* struct RedactedUnsigned
RedactedUnsignedValue(redacted_because) == [redacted_because |-> redacted_because]

\* #[derive(Default)] of RedactedUnsigned and RedactedUnsigned::new
RedactedUnsigned_default == RedactedUnsignedValue(None)
RedactedUnsigned_new == RedactedUnsigned_default

\* RedactedUnsigned::new_because
RedactedUnsigned_new_because(redacted_because) ==
    RedactedUnsignedValue(Some(redacted_because))

\* RedactedUnsigned::is_empty
RedactedUnsigned_is_empty(self) == self.redacted_because = None

\* impl From<RedactedUnsignedWithPrevContent> for RedactedUnsigned
RedactedUnsigned_from(u) == RedactedUnsignedValue(u.redacted_because)

Made(ty, by, val) == [ty |-> ty, by |-> by, val |-> val]

\* no derive is at work while unsigned data is handled
NoDerive == DeriveInput(<<>>, Body("unit", <<>>))

InitUnsigned ==
    /\ features \in SUBSET Features
    /\ unsigned = NoValue
    /\ call = NoCall
    /\ input = NoDerive
    /\ expanded = Pending
    /\ generated = <<>>

UnsignedNew ==
    /\ unsigned = NoValue
    /\ unsigned' = Made("Unsigned", "new", Unsigned_new(features))
    /\ UNCHANGED <<input, expanded, generated, call, features>>

\* an Unsigned is deserialized or built from its public fields
UnsignedDeserialize ==
    \E val \in UnsignedValues(features) :
        /\ unsigned = NoValue
        /\ unsigned' = Made("Unsigned", "deserialize", val)
        /\ UNCHANGED <<input, expanded, generated, call, features>>

\* an UnsignedWithPrevContent is converted, under the feature compat
UnsignedFrom ==
    \E age \in Option(Ages), transaction_id \in Option(TransactionIds),
       relations \in Option(RelationsValues), prev_content \in Option({"{}"}) :
        LET u == IF UnstablePreSpec \in features
                 THEN [age |-> age, transaction_id |-> transaction_id,
                       relations |-> relations, prev_content |-> prev_content]
                 ELSE [age |-> age, transaction_id |-> transaction_id,
                       prev_content |-> prev_content]
        IN /\ Compat \in features
           /\ unsigned = NoValue
           /\ unsigned' = Made("Unsigned", "from", Unsigned_from(features, u))
           /\ UNCHANGED <<input, expanded, generated, call, features>>

RedactedUnsignedNew ==
    /\ unsigned = NoValue
    /\ unsigned' = Made("RedactedUnsigned", "new", RedactedUnsigned_new)
    /\ UNCHANGED <<input, expanded, generated, call, features>>

RedactedUnsignedNewBecause ==
    \E redacted_because \in RedactionEvents :
        /\ unsigned = NoValue
        /\ unsigned' = Made("RedactedUnsigned", "new_because",
                            RedactedUnsigned_new_because(redacted_because))
        /\ UNCHANGED <<input, expanded, generated, call, features>>

\* a RedactedUnsignedWithPrevContent is converted, under the feature compat
RedactedUnsignedFrom ==
    \E redacted_because \in Option(RedactionEvents), prev_content \in Option({"{}"}) :
        LET u == [redacted_because |-> redacted_because, prev_content |-> prev_content]
        IN /\ Compat \in features
           /\ unsigned = NoValue
           /\ unsigned' = Made("RedactedUnsigned", "from", RedactedUnsigned_from(u))
           /\ UNCHANGED <<input, expanded, generated, call, features>>

\* Unsigned::is_empty is called
UnsignedIsEmpty ==
    /\ unsigned.ty = "Unsigned"
    /\ call.op = "none"
    /\ call' = [op |-> "Unsigned::is_empty", self |-> unsigned.val,
                result |-> Unsigned_is_empty(unsigned.val)]
    /\ UNCHANGED <<input, expanded, generated, features, unsigned>>

\* RedactedUnsigned::is_empty is called
RedactedUnsignedIsEmpty ==
    /\ unsigned.ty = "RedactedUnsigned"
    /\ call.op = "none"
    /\ call' = [op |-> "RedactedUnsigned::is_empty", self |-> unsigned.val,
                result |-> RedactedUnsigned_is_empty(unsigned.val)]
    /\ UNCHANGED <<input, expanded, generated, features, unsigned>>

NextUnsigned ==
    \/ UnsignedNew
    \/ UnsignedDeserialize
    \/ UnsignedFrom
    \/ RedactedUnsignedNew
    \/ RedactedUnsignedNewBecause
    \/ RedactedUnsignedFrom
    \/ UnsignedIsEmpty
    \/ RedactedUnsignedIsEmpty
    \/ Return

SpecUnsigned == InitUnsigned /\ [][NextUnsigned]_vars

\* ------------------------------------------------------------------------
\* What the input declares, read off the input alone
\* ------------------------------------------------------------------------
\* the tokens of the ruma_event attributes of the type, in source order
TypeLevelTokens(in) ==
    Flatten([i \in 1..Len(in.attrs) |->
                IF in.attrs[i].path = "ruma_event" THEN in.attrs[i].args ELSE <<>>])

Lits(toks, kw) ==
    LET sel == SelectSeq(toks, LAMBDA t : t.kw = kw)
    IN [i \in 1..Len(sel) |-> sel[i].lit]

DeclaredTypes(in) == Lits(TypeLevelTokens(in), "type")
DeclaredKinds(in) == Lits(TypeLevelTokens(in), "kind")
DeclaresCustomRedacted(in) == Lits(TypeLevelTokens(in), "custom_redacted") # <<>>

\* the first type string and the first kind identifier written, "" if none
DeclaredType(in) == IF DeclaredTypes(in) = <<>> THEN "" ELSE DeclaredTypes(in)[1]
DeclaredKind(in) == IF DeclaredKinds(in) = <<>> THEN "" ELSE DeclaredKinds(in)[1]

\* every token of the type's ruma_event attributes is of the grammar
TypeAttrsWellFormed(in) ==
    \A t \in Range(TypeLevelTokens(in)) :
        /\ t.kw \in {"type", "kind", "skip_redaction", "custom_redacted"}
        /\ t.kw = "kind" => t.lit \in DerivableKindTokens

WantsRedacted(in) == DeclaredKind(in) \in {"Message", "State"} /\ ~DeclaresCustomRedacted(in)

Compiled == expanded.st = "Ok"

\* ------------------------------------------------------------------------
\* C1: a compiled schema yields exactly one redacted counterpart (the struct
\* Redacted<Ident>, with RedactContent on the original naming it) when its
\* kind is Message or State and no custom_redacted is written in any of its
\* ruma_event attributes, and no redacted counterpart in every other case.
\* ------------------------------------------------------------------------
C1_RedactedIffMessageOrState ==
    Compiled =>
        LET structs == Items("Struct")
            redacts == Items("RedactContent")
        IN IF WantsRedacted(input)
           THEN /\ Len(structs) = 1 /\ Len(redacts) = 1
                /\ structs[1].ident = RedactedIdent(input.ident)
                /\ redacts[1].ident = input.ident
                /\ redacts[1].Redacted = structs[1].ident
                /\ Len(Items("RedactedEventContent")) = 1
           ELSE /\ structs = <<>> /\ redacts = <<>>
                /\ Items("RedactedEventContent") = <<>>
                /\ Items("Constructor") = <<>>

C1_Witness ==
    /\ Compiled /\ DeclaredKind(input) = "State" /\ Len(Items("Struct")) = 1
    /\ Len(input.attrs) > 2

\* ------------------------------------------------------------------------
\* C2: from_parts and empty of every compiled type fail with the type
\* mismatch error, naming the expected and the found string, when ev_type
\* is not the declared type string; the check comes first: from_parts does
\* not parse the payload, and empty reports the mismatch also when the
\* redacted type has kept fields. When ev_type matches, from_parts returns
\* the result of the structural parse of the payload.
\* ------------------------------------------------------------------------
C2_TypeCheckFirst ==
    /\ call.op = "from_parts" =>
          IF call.ev_type # DeclaredType(input)
          THEN /\ call.result.st = "Err"
               /\ call.result.v = TypeMismatch(DeclaredType(input), call.ev_type)
               /\ ~call.parsed
          ELSE /\ call.parsed
               /\ call.result.st = from_str(call.ident, DefOf(call.ident), call.content).st
               /\ call.result.v = from_str(call.ident, DefOf(call.ident), call.content).v
    /\ (call.op = "empty" /\ call.ev_type # DeclaredType(input)) =>
          /\ call.result.st = "Err"
          /\ call.result.v = TypeMismatch(DeclaredType(input), call.ev_type)

C2_Witness ==
    /\ call.op = "empty" /\ call.ev_type # DeclaredType(input)
    /\ Items("Struct")[1].fields # <<>>
    /\ call.result = Err(TypeMismatch("m.b", "m.a"))

\* ------------------------------------------------------------------------
\* What the body declares, read off the input alone
\* ------------------------------------------------------------------------
HasRumaToken(f, kw) ==
    \E a \in Range(f.attrs) : a.path = "ruma_event" /\ \E t \in Range(a.args) : t.kw = kw

NamedFields(in) == IF in.data.shape = "named" THEN in.data.fields ELSE <<>>

\* the names of the named fields marked #[ruma_event(skip_redaction)]
MarkedNames(in) ==
    {f.name : f \in {g \in Range(NamedFields(in)) : HasRumaToken(g, "skip_redaction")}}

\* a named field carries a ruma_event attribute with a token that is not of
\* the grammar
HasUnrecognizedFieldToken(in) ==
    \E f \in Range(NamedFields(in)) : HasRumaToken(f, "rename")

\* ------------------------------------------------------------------------
\* C3: for a Message or State content type without custom_redacted,
\* redact(c, v) is defined for every value c and room version v, its result
\* has exactly the fields marked skip_redaction, each with the value of the
\* field of c, and it does not depend on v.
\* ------------------------------------------------------------------------
C3_RedactKeepsMarkedFields ==
    /\ (Compiled /\ WantsRedacted(input)) => Len(Items("RedactContent")) = 1
    /\ call.op = "redact" =>
          /\ call.result.ty = RedactedIdent(input.ident)
          /\ DOMAIN call.result.fields = MarkedNames(input)
          /\ \A n \in DOMAIN call.result.fields : call.result.fields[n] = call.self.fields[n]
          /\ \A v \in RoomVersions :
                redact(Items("RedactContent")[1], call.self, v) = call.result

\* ------------------------------------------------------------------------
\* C4: empty(type_string) of a generated redacted type, called with the
\* declared type string, returns the field-less value when the type has no
\* kept field, and fails with "this redacted event has fields that cannot
\* be constructed" when it has one or more.
\* ------------------------------------------------------------------------
C4_EmptyAsymmetry ==
    (call.op = "empty" /\ call.ev_type = DeclaredType(input)) =>
        IF Items("Struct")[1].fields = <<>>
        THEN /\ call.result.st = "Ok"
             /\ call.result.v = StructValue(RedactedIdent(input.ident), <<>>)
        ELSE /\ call.result.st = "Err"
             /\ call.result.v =
                    [error |-> "this redacted event has fields that cannot be constructed"]

C4_Witness ==
    /\ call.op = "empty" /\ call.ev_type = DeclaredType(input)
    /\ Len(Items("Struct")[1].fields) = 1
    /\ call.result.st = "Err"

\* ------------------------------------------------------------------------
\* C5: a schema whose kind is Redaction, Presence or Decrypted is rejected:
\* expand_event_content produces no artifacts for it, whatever its type
\* string, its custom_redacted marker and its body.
\* ------------------------------------------------------------------------
C5_NonDerivableKindRejected ==
    (expanded.st # "Pending"
     /\ \E k \in Range(DeclaredKinds(input)) : k \in NonDerivableKindTokens)
        => expanded.st # "Ok"

C5_Witness ==
    /\ expanded.st = "Err"
    /\ DeclaredTypes(input) = <<"m.a">>
    /\ DeclaredKinds(input) = <<"Presence">>
    /\ DeclaresCustomRedacted(input)
    /\ input.data.shape = "tuple"

\* ------------------------------------------------------------------------
\* C6: a schema compiles only if it declares exactly one type attribute:
\* with none expand_event_content fails with "no event type attribute
\* found", with more than one it fails with "multiple event type attribute
\* found", however the type attributes are spread over the ruma_event
\* attributes of the type (the attributes being otherwise well formed).
\* ------------------------------------------------------------------------
C6_ExactlyOneType ==
    (expanded.st # "Pending" /\ TypeAttrsWellFormed(input)) =>
        /\ Len(DeclaredTypes(input)) = 0 =>
              (expanded.st = "Err" /\ expanded.v = "no event type attribute found")
        /\ Len(DeclaredTypes(input)) > 1 =>
              (expanded.st = "Err" /\ expanded.v = "multiple event type attribute found")
        /\ Compiled => Len(DeclaredTypes(input)) = 1

\* ------------------------------------------------------------------------
\* C7: a named field with a ruma_event attribute of an unrecognized token
\* makes expand_event_content fail with an error for every schema, also one
\* for which no redacted type is generated (no kind, a kind other than
\* Message and State, or custom_redacted).
\* ------------------------------------------------------------------------
C7_UnrecognizedFieldTokenRejected ==
    (expanded.st # "Pending" /\ HasUnrecognizedFieldToken(input)) => expanded.st = "Err"

\* ------------------------------------------------------------------------
\* C8: the kept fields of a generated redacted type
\* ------------------------------------------------------------------------
KeptOf(struct) == struct.fields

\* the kept fields are fields of the original, in the original order, with
\* the original types; a tuple or unit content type has none
KeptFromOriginal(kept) ==
    /\ \A i \in 1..Len(kept) :
          \E j \in 1..Len(input.data.fields) :
              /\ input.data.fields[j].name = kept[i].name
              /\ input.data.fields[j].ty = kept[i].ty
    /\ \A i, j \in 1..Len(kept) : i < j => kept[i].name < kept[j].name
    /\ input.data.shape # "named" => kept = <<>>

\* C8 as stated: the kept fields are a strict subset of the original fields
\* (one original field at least is dropped), in the original order and with
\* the original types.
C8_KeptFieldsStrictSubset ==
    (Compiled /\ Items("Struct") # <<>>) =>
        LET kept == KeptOf(Items("Struct")[1])
        IN /\ KeptFromOriginal(kept)
           /\ Len(kept) < Len(input.data.fields)

\* C8 as amended: the kept fields are a subset of the original fields, all
\* of them when every field is marked, in the original order and with the
\* original types; no field is introduced; a tuple or unit content type has
\* no kept field.
C8_KeptFieldsSubset ==
    (Compiled /\ Items("Struct") # <<>>) =>
        LET kept == KeptOf(Items("Struct")[1])
        IN /\ KeptFromOriginal(kept)
           /\ Len(kept) <= Len(input.data.fields)

C8_Witness ==
    /\ Compiled /\ Items("Struct") # <<>>
    /\ Len(Items("Struct")[1].fields) = 1
    /\ Items("Struct")[1].fields[1].name = 2
    /\ Len(input.data.fields) = 2

\* ------------------------------------------------------------------------
\* C9: for a compiled schema with a kind, StaticEventContent of the original
\* type has KIND = the declared kind, with redacted = false for Message and
\* State, and StaticEventContent of the generated redacted type has the same
\* kind with redacted = true; TYPE and event_type() of both are the declared
\* type string; no other type has redacted = true.
\* ------------------------------------------------------------------------
\* the EventKind of ruma_events named by a kind identifier of the attribute
KindNamed(token, redacted) ==
    IF token \in {"Message", "State"} THEN [variant |-> token, redacted |-> redacted]
    ELSE IF token = "EphemeralRoom" THEN [variant |-> "EphemeralRoomData"]
    ELSE [variant |-> token]

StaticOf(ident) == SelectSeq(Items("StaticEventContent"), LAMBDA it : it.ident = ident)

C9_StaticDescriptor ==
    /\ (Compiled /\ DeclaredKinds(input) # <<>>) =>
          LET own == StaticOf(input.ident)
              red == StaticOf(RedactedIdent(input.ident))
          IN /\ Len(own) = 1
             /\ own[1].KIND = KindNamed(DeclaredKind(input), FALSE)
             /\ own[1].TYPE = DeclaredType(input)
             /\ Len(red) = Len(Items("Struct"))
             /\ \A i \in 1..Len(red) :
                   /\ red[i].KIND = KindNamed(DeclaredKind(input), TRUE)
                   /\ red[i].KIND.redacted
                   /\ red[i].TYPE = DeclaredType(input)
             /\ Len(Items("StaticEventContent")) = Len(own) + Len(red)
    /\ Compiled =>
          \A it \in Range(Items("EventContent")) : it.event_type = DeclaredType(input)
    /\ call.op = "event_type" => call.result = DeclaredType(input)

C9_Witness ==
    /\ call.op = "event_type" /\ call.ident = RedactedIdent(input.ident)
    /\ call.result = "m.b"
    /\ StaticOf(call.ident)[1].KIND = [variant |-> "State", redacted |-> TRUE]
    /\ StaticOf(input.ident)[1].KIND = [variant |-> "State", redacted |-> FALSE]

\* ------------------------------------------------------------------------
\* C10: a schema with a valid type attribute and no kind attribute compiles,
\* and only the EventContent impl of the type is generated: no marker, no
\* StaticEventContent, no redacted type, RedactContent or
\* RedactedEventContent, with or without custom_redacted and skip_redaction
\* markers on the fields.
\* ------------------------------------------------------------------------
C10_NoKindOnlyEventContent ==
    (/\ expanded.st # "Pending"
     /\ TypeAttrsWellFormed(input)
     /\ Len(DeclaredTypes(input)) = 1
     /\ DeclaredKinds(input) = <<>>) =>
        /\ Compiled
        /\ Len(expanded.v) = 1
        /\ expanded.v[1].item = "EventContent"
        /\ expanded.v[1].ident = input.ident
        /\ expanded.v[1].event_type = DeclaredType(input)

C10_Witness ==
    /\ Compiled /\ Len(expanded.v) = 1
    /\ DeclaredKinds(input) = <<>>
    /\ DeclaresCustomRedacted(input)
    /\ MarkedNames(input) # {}

\* ------------------------------------------------------------------------
\* C11: for every generated redacted type has_deserialize_fields() is True
\* exactly when the type has kept fields and False otherwise,
\* has_serialize_fields() gives every instance the same answer, the one of
\* the type-level flag, and the public constructor new() is generated
\* exactly when there are no kept fields; new() returns the field-less value.
\* ------------------------------------------------------------------------
RedactedStructs == Items("Struct")

C11_FieldFlagsAndConstructor ==
    /\ \A struct \in Range(RedactedStructs) :
          LET impls == SelectSeq(Items("RedactedEventContent"),
                                 LAMBDA it : it.ident = struct.ident)
              constructors == SelectSeq(Items("Constructor"),
                                        LAMBDA it : it.ident = struct.ident)
              kept == KeptOf(struct) # <<>>
          IN /\ Len(impls) = 1
             /\ has_deserialize_fields(impls[1]) = (IF kept THEN "True" ELSE "False")
             /\ \A self \in RedactedValues(struct.ident) :
                   has_serialize_fields(impls[1], self) = kept
             /\ Len(constructors) = (IF kept THEN 0 ELSE 1)
    /\ call.op = "has_serialize_fields" =>
          call.result = (KeptOf(DefOf(call.ident)) # <<>>)
    /\ call.op = "has_deserialize_fields" =>
          call.result = (IF KeptOf(DefOf(call.ident)) # <<>> THEN "True" ELSE "False")
    /\ call.op = "new" =>
          /\ KeptOf(DefOf(call.ident)) = <<>>
          /\ call.result = StructValue(RedactedIdent(input.ident), <<>>)

\* has_serialize_fields answered for an instance of a redacted type with a
\* kept field holding 0, where a payload-dependent answer would differ
C11_Witness ==
    /\ call.op = "has_serialize_fields"
    /\ call.result = TRUE
    /\ \A n \in DOMAIN call.self.fields : call.self.fields[n] = 0

\* ------------------------------------------------------------------------
\* C12: Unsigned::is_empty answers true exactly when every field the build
\* gives Unsigned is None (age, transaction_id and, under unstable-pre-spec,
\* relations), RedactedUnsigned::is_empty exactly when redacted_because is
\* None; the values of Unsigned::new and RedactedUnsigned::new are empty,
\* the one of RedactedUnsigned::new_because is not.
\* ------------------------------------------------------------------------
AllNone(self) == \A f \in DOMAIN self : self[f] = None

C12_IsEmptyIffAllNone ==
    /\ call.op = "Unsigned::is_empty" =>
          /\ call.result = AllNone(call.self)
          /\ unsigned.by = "new" => call.result
    /\ call.op = "RedactedUnsigned::is_empty" =>
          /\ call.result = (call.self.redacted_because = None)
          /\ unsigned.by = "new" => call.result
          /\ unsigned.by = "new_because" => ~call.result

\* under unstable-pre-spec an Unsigned that holds relations alone is
\* reported empty
C12_RelationsOnlyReportedEmpty ==
    /\ call.op = "Unsigned::is_empty"
    /\ UnstablePreSpec \in features
    /\ call.self.relations # None
    /\ call.result = TRUE

\* ------------------------------------------------------------------------
\* C13: the order in which expand_event_content calls its generators
\* ------------------------------------------------------------------------
NonDerivableDeclared(in) ==
    \E k \in Range(DeclaredKinds(in)) : k \in NonDerivableKindTokens

\* the position of the call of f among the generator calls, 0 if f was not
\* called
CalledAt(f) == FirstIndex([i \in 1..Len(generated) |-> generated[i] = f])

\* C13 as stated: expand_event_content never panics, and for a schema whose
\* kind is Redaction, Presence or Decrypted the failure is the Err returned
\* by generate_marker_trait_impl, which is called without
\* generate_static_event_content_impl having been called for that kind.
C13_NoPanicByMarkerErr ==
    /\ expanded.st # "Panic"
    /\ (expanded.st # "Pending" /\ NonDerivableDeclared(input)) =>
          /\ expanded.st = "Err"
          /\ CalledAt("generate_marker_trait_impl") # 0
          /\ CalledAt("generate_static_event_content_impl") = 0

\* C13 as amended: expand_event_content never panics and every failure is
\* a returned Err; a schema whose kind is Redaction, Presence or Decrypted
\* fails with the Err of the parse of its attributes, before any generator
\* is called. Neither generate_marker_trait_impl nor
\* generate_static_event_content_impl is the source of an Err or a panic:
\* they are called for derivable kinds only, and
\* generate_static_event_content_impl is called first.
C13_NoPanicByKindParser ==
    /\ expanded.st \in {"Pending", "Ok", "Err"}
    /\ (expanded.st # "Pending" /\ NonDerivableDeclared(input)) =>
          /\ expanded.st = "Err"
          /\ ContentAttr(input).st = "Err"
          /\ expanded.v = ContentAttr(input).v
          /\ generated = <<>>
    /\ CalledAt("generate_marker_trait_impl") # 0 =>
          /\ CalledAt("generate_static_event_content_impl") # 0
          /\ CalledAt("generate_static_event_content_impl")
                < CalledAt("generate_marker_trait_impl")
    /\ CalledAt("generate_static_event_content_impl") # 0 =>
          /\ DeclaredKind(input) \in DerivableKindTokens
          /\ CalledAt("generate_marker_trait_impl") # 0
    /\ expanded.st = "Err" =>
          generated \in {<<>>, <<"generate_redacted_event_content">>}

C13_Witness ==
    /\ expanded.st = "Err"
    /\ generated = <<>>
    /\ DeclaredTypes(input) = <<"m.a">>
    /\ DeclaredKinds(input) = <<"Redaction">>
    /\ ~DeclaresCustomRedacted(input)
    /\ input.data.shape = "named"

====
